---- MODULE Spec2Model ----
(***************************************************************************)
(* Model of the distributed coordination layer of src/dist.py:             *)
(* is_dist / world_size / rank / is_main, the gather-and-reduce functions  *)
(* sync_tensor, sync_values and sync_dict_values, and the scoped           *)
(* leader-first primitive on_main_first.                                   *)
(*                                                                         *)
(* One behaviour is one SPMD program step: nprocs processes are launched,  *)
(* with or without an initialised process group, and each of them either   *)
(* calls the operation `prog` once with its own arguments, or never calls  *)
(* it.  The collectives of torch.distributed (barrier, all_gather) are     *)
(* matched by their position in each process's sequence of collective      *)
(* calls: the k-th collective of a process returns only when every process *)
(* of the group has issued its k-th collective.                            *)
(*                                                                         *)
(* Numbers.  A Python float is an integer number of units, One units being *)
(* 1.0.  A float32 tensor element is a multiple of Grid units, so that     *)
(* torch.tensor(values, dtype=torch.float) and torch.mean round.  An       *)
(* all_gather whose buffers differ in shape across the ranks is undefined: *)
(* it may never return, raise, or return unspecified elements (Poison).    *)
(*                                                                         *)
(* Programs.  In SpecScopes every process runs the same sequence of        *)
(* on_main_first scopes, a guarded block may raise, and each process is    *)
(* scheduled fairly.                                                       *)
(*                                                                         *)
(* Lifecycle.  SpecLife follows one launched process through any sequence  *)
(* of init calls and of the teardown of src/train.py, with the rendezvous  *)
(* settings of os.environ and the current CUDA device as state.            *)
(***************************************************************************)
EXTENDS Integers, Sequences, FiniteSets, TLC

\* ------------------------------------------------------------------ bounds
MaxProcs == 2
MaxLen == 2
MaxScopes == 2

\* ----------------------------------------------------------------- numbers
Grid == 2
One == 3 * Grid
Poison == 0 - 1

IsPoison(x) == x < 0

\* torch.tensor(values, dtype=torch.float): the nearest float32 to num/den.
Round32(num, den) == ((2 * num + den * Grid) \div (2 * den * Grid)) * Grid

ToFloat32(x) == IF IsPoison(x) THEN Poison ELSE Round32(x, 1)

Add32(a, b) == IF IsPoison(a) \/ IsPoison(b) THEN Poison ELSE a + b

Div32(a, n) == IF IsPoison(a) THEN Poison ELSE Round32(a, n)

\* ---------------------------------------------------------- nested mappings
\* A NestedDict is the sequence of its entries in insertion order.  An entry
\* is a number (kind "leaf"), None ("none"), a list of numbers ("list") or a
\* nested mapping ("dict").
KeyOrder == <<"extra", "loss", "train">>

KeyRank(k) == CHOOSE i \in 1..Len(KeyOrder) : KeyOrder[i] = k

Leaf(k, v) == [k |-> k, kind |-> "leaf", v |-> v, l |-> <<>>, sub |-> <<>>]
NoneLeaf(k) == [k |-> k, kind |-> "none", v |-> 0, l |-> <<>>, sub |-> <<>>]
ListLeaf(k, l) == [k |-> k, kind |-> "list", v |-> 0, l |-> l, sub |-> <<>>]
Sub(k, d) == [k |-> k, kind |-> "dict", v |-> 0, l |-> <<>>, sub |-> d]

HasKey(d, k) == \E i \in 1..Len(d) : d[i].k = k

IndexOf(d, k) == CHOOSE i \in 1..Len(d) : d[i].k = k

RECURSIVE nested_keys(_)
\* nested_dict.nested_keys(d, keep_none=False): the paths of the leaves that
\* are not None, in insertion order.
nested_keys(d) ==
    IF d = <<>> THEN <<>>
    ELSE LET e == Head(d)
             own == CASE e.kind = "dict" ->
                            LET inner == nested_keys(e.sub)
                            IN  [i \in 1..Len(inner) |-> <<e.k>> \o inner[i]]
                      [] e.kind = "none" -> <<>>
                      [] OTHER -> << <<e.k>> >>
         IN  own \o nested_keys(Tail(d))

RECURSIVE get_recursive(_, _)
\* nested_dict.get_recursive(d, k): the value stored under the path k.
get_recursive(d, path) ==
    LET e == d[IndexOf(d, Head(path))]
    IN  IF Len(path) = 1 THEN e.v ELSE get_recursive(e.sub, Tail(path))

RECURSIVE set_recursive(_, _, _)
\* nested_dict.set_recursive(out, k, v): store the entry `val` under the path,
\* creating the intermediate mappings; a new key is appended.
set_recursive(out, path, val) ==
    LET k == Head(path)
        old == IF HasKey(out, k) /\ out[IndexOf(out, k)].kind = "dict"
               THEN out[IndexOf(out, k)].sub ELSE <<>>
        e == IF Len(path) = 1
             THEN [val EXCEPT !.k = k]
             ELSE Sub(k, set_recursive(old, Tail(path), val))
    IN  IF HasKey(out, k) THEN [out EXCEPT ![IndexOf(out, k)] = e]
        ELSE Append(out, e)

RECURSIVE PathLess(_, _)
\* The order of Python's sorted() on paths: lexicographic, a proper prefix
\* first.
PathLess(a, b) ==
    IF a = <<>> THEN b # <<>>
    ELSE IF b = <<>> THEN FALSE
    ELSE IF Head(a) = Head(b) THEN PathLess(Tail(a), Tail(b))
    ELSE KeyRank(Head(a)) < KeyRank(Head(b))

RECURSIVE Insert(_, _)
Insert(s, x) ==
    IF s = <<>> THEN <<x>>
    ELSE IF PathLess(x, Head(s)) THEN <<x>> \o s
    ELSE <<Head(s)>> \o Insert(Tail(s), x)

RECURSIVE sorted(_)
sorted(s) == IF s = <<>> THEN <<>> ELSE Insert(sorted(Tail(s)), Head(s))

\* -------------------------------------------------------------- reductions
RECURSIVE ColumnSum(_, _)
\* torch.sum(gathered_stack, dim=0)[j], accumulated in ascending rank order.
ColumnSum(stack, j) ==
    IF stack = <<>> THEN 0
    ELSE Add32(ColumnSum(SubSeq(stack, 1, Len(stack) - 1), j),
               stack[Len(stack)][j])

Width(stack) == Len(stack[1])

TorchSumLastOnly(stack) == stack[Len(stack)]

TorchSum(stack) == [j \in 1..Width(stack) |-> ColumnSum(stack, j)]

TorchMeanUndivided(stack) == TorchSum(stack)

TorchMean(stack) ==
    [j \in 1..Width(stack) |-> Div32(ColumnSum(stack, j), Len(stack))]


\* -------------------------------------------------------------------- state
VARIABLES
    initialized,    \* dist.is_available() and dist.is_initialized()
    nprocs,         \* number of launched processes (the group, when initialised)
    prog,           \* the operation of dist.py every process is about to call
    reduction,      \* the reduction the call site passes
    pc,             \* where each process is
    enabled,        \* on_main_first: the argument enabled of each process
    join,           \* on_main_first: the argument join of each process
    tensor,         \* sync_tensor: the argument tensor of each process
    values,         \* sync_values: the argument values of each process
    d,              \* sync_dict_values: the argument d of each process
    coll,           \* the collectives each process has issued, in order
    returned,       \* how many of its collectives have returned, per process
    started,        \* how many times the guarded block was started
    finished,       \* how many times the guarded block was finished
    result,         \* what the call returned or raised
    ref,            \* the object the call returned: its argument or a new one
    environ,        \* os.environ: MASTER_ADDR and MASTER_PORT of the process
    device,         \* the current CUDA device of the process
    ret,            \* how the last init or teardown of the process ended
    program         \* the scopes every process runs one after the other

vars == <<initialized, nprocs, prog, reduction, pc, enabled, join, tensor,
          values, d, coll, returned, started, finished, result, ref,
          environ, device, ret, program>>

AllProcs == 0..(MaxProcs - 1)

Procs == 0..(nprocs - 1)

Progs == {"on_main_first", "sync_tensor", "sync_values", "sync_dict_values"}

\* "None" is Python's None; "max" stands for every unsupported mode.
Reductions == {"mean", "sum", "none", "None", "max"}

Supported == {"mean", "sum", "none", "None"}

TensorVals == {One, 3 * One}

PyVals == {3 * One, One + 1}

\* The buffer of n elements that starts at a and steps by one float32: no two
\* of its elements, and no two buffers of one length, are equal.
Ramp(a, n) == [j \in 1..n |-> a + (j - 1) * Grid]

TensorInputs == {Ramp(a, n) : a \in TensorVals, n \in 1..MaxLen}

ValueInputs == {Ramp(a, n) : a \in PyVals, n \in 0..MaxLen}

DictInputs ==
    { <<>>,
      <<NoneLeaf("extra")>>,
      <<Sub("loss", <<Leaf("train", One)>>), Leaf("extra", 5 * One)>>,
      <<Sub("loss", <<Leaf("train", 3 * One)>>)>>,
      <<Leaf("extra", 5 * One), Sub("loss", <<Leaf("train", One)>>)>>,
      <<Sub("loss", <<Leaf("train", 3 * One)>>), NoneLeaf("extra")>>,
      <<Leaf("train", One + 1), Leaf("extra", One)>>,
      <<Leaf("train", One), Sub("loss", <<Leaf("train", 3 * One)>>),
        Leaf("extra", One)>> }

\* --------------------------------------------------------- group queries
is_dist == initialized

world_size == IF ~is_dist THEN 1 ELSE nprocs

rankUnguarded(p) == p

rank(p) == IF ~is_dist THEN 0 ELSE p

is_main(p) == rank(p) = 0

\* ------------------------------------------------------------- results
Pending == [kind |-> "pending", t |-> <<>>, st |-> <<>>, d |-> <<>>]
Tensor(t) == [kind |-> "tensor", t |-> t, st |-> <<>>, d |-> <<>>]
Stack(st) == [kind |-> "stack", t |-> <<>>, st |-> st, d |-> <<>>]
List(t) == [kind |-> "list", t |-> t, st |-> <<>>, d |-> <<>>]
Lists(st) == [kind |-> "lists", t |-> <<>>, st |-> st, d |-> <<>>]
Dict(m) == [kind |-> "dict", t |-> <<>>, st |-> <<>>, d |-> m]
ValueError == [kind |-> "ValueError", t |-> <<>>, st |-> <<>>, d |-> <<>>]
CommError == [kind |-> "CommError", t |-> <<>>, st |-> <<>>, d |-> <<>>]

\* ------------------------------------------------------------ collectives
Barrier == [kind |-> "barrier", data |-> <<>>]

AllGather(t) == [kind |-> "all_gather", data |-> t]

Issue(p, c) == coll' = [coll EXCEPT ![p] = Append(@, c)]

\* The collective a blocked process waits in is the last one it issued.
Current(p) == Len(coll[p])

CanCompleteLive(p) ==
    \A q \in Procs :
        pc[q] \in {"omitted", "exited", "done"} \/ Len(coll[q]) >= Current(p)

CanCompleteStale(p) == \A q \in Procs : Len(coll[q]) >= 1

\* dist.barrier / dist.all_gather return once every process of the group has
\* issued the matching call.
CanComplete(p) == \A q \in Procs : Len(coll[q]) >= Current(p)

\* Every rank passed all_gather a buffer of the shape of p's buffer.
Matched(p) ==
    \A q \in Procs :
        /\ Len(coll[q]) >= Current(p)
        /\ coll[q][Current(p)].kind = coll[p][Current(p)].kind
        /\ Len(coll[q][Current(p)].data) = Len(coll[p][Current(p)].data)

GatheredReversed(p) ==
    [i \in 1..nprocs |-> coll[nprocs - i][Current(p)].data]

\* The list `gathered` after dist.all_gather(gathered, tensor): index i holds
\* the buffer of rank i.
Gathered(p) == [i \in 1..nprocs |-> coll[i - 1][Current(p)].data]

Unspecified(p) ==
    [i \in 1..nprocs |-> [j \in 1..Len(coll[p][Current(p)].data) |-> Poison]]

\* -------------------------------------------------------- sync functions
\* sync_tensor from torch.stack on.
Reduce(gathered, r) ==
    CASE r = "mean" -> Tensor(TorchMean(gathered))
      [] r = "sum" -> Tensor(TorchSum(gathered))
      [] r \in {"none", "None"} -> Stack(gathered)
      [] OTHER -> ValueError

\* Tensor.tolist()
ToList(res) ==
    CASE res.kind = "tensor" -> List(res.t)
      [] res.kind = "stack" -> Lists(res.st)
      [] OTHER -> res

Min(a, b) == IF a < b THEN a ELSE b

OutObjectInput == "arg"

\* out: NestedDict[float] = {} -- the mapping the result is built in is a new
\* object ("new"), not the argument d ("arg").
OutObject == "new"

\* What `out` holds before the loop.
OutContent(m) == IF OutObject = "arg" THEN m ELSE <<>>

RECURSIVE Rebuild(_, _, _, _)
\* The loop `for k, v in zip(keys, values): set_recursive(out, k, v)` over
\* the first n pairs.
Rebuild(out, keys, vals, n) ==
    IF n = 0 THEN out
    ELSE set_recursive(Rebuild(out, keys, vals, n - 1), keys[n], vals[n])

Keys(m) == sorted(nested_keys(m))

\* values = [get_recursive(d, k) for k in keys], then torch.tensor(values,
\* dtype=torch.float)
DictTensor(m) ==
    LET keys == Keys(m)
    IN  [i \in 1..Len(keys) |-> ToFloat32(get_recursive(m, keys[i]))]

\* sync_dict_values from the return of sync_values on.
RebuildDict(m, res) ==
    LET keys == Keys(m)
    IN  CASE res.kind = "list" ->
               Dict(Rebuild(OutContent(m), keys,
                            [i \in 1..Len(res.t) |-> Leaf("", res.t[i])],
                            Min(Len(keys), Len(res.t))))
          [] res.kind = "lists" ->
               Dict(Rebuild(OutContent(m), keys,
                            [i \in 1..Len(res.st) |-> ListLeaf("", res.st[i])],
                            Min(Len(keys), Len(res.st))))
          [] OTHER -> res


\* -------------------------------------------------------------- lifecycle
\* The lifecycle of the context is followed on one of the launched processes;
\* its peers are the environment of the rendezvous.
NoEnviron == [addr |-> "unset", port |-> "unset"]

Addrs == {"localhost", "node1"}

\* str(port)
Ports == {"12345", "29500"}

\* device_ids: None, or a list of device ids.
NoIds == [given |-> FALSE, l |-> <<>>]

Ids(l) == [given |-> TRUE, l |-> l]

DeviceIdArgs ==
    { NoIds,
      Ids([i \in 1..nprocs |-> i - 1]),
      Ids([i \in 1..nprocs |-> nprocs - i]),
      Ids([i \in 1..nprocs |-> i]),
      Ids(<<0>>) }

NoCall == [op |-> "none", kind |-> "none", val |-> 0, ids |-> NoIds]

Returns(op, val, ids) ==
    [op |-> op, kind |-> "returned", val |-> val, ids |-> ids]

Raises(op, ids) == [op |-> op, kind |-> "raised", val |-> 0, ids |-> ids]

DeviceIdRank(rk, ids) == rk

\* device_id = rank if device_ids is None else device_ids[rank]
DeviceId(rk, ids) == IF ~ids.given THEN rk ELSE ids.l[rk + 1]

\* ------------------------------------------------------------------- Init
Init ==
    /\ initialized \in BOOLEAN
    /\ nprocs \in 1..MaxProcs
    /\ prog \in Progs
    /\ reduction \in (IF prog = "on_main_first" THEN {"mean"} ELSE Reductions)
    /\ pc = [p \in AllProcs |-> IF p < nprocs THEN "idle" ELSE "absent"]
    /\ enabled = [p \in AllProcs |-> FALSE]
    /\ join = [p \in AllProcs |-> FALSE]
    /\ tensor = [p \in AllProcs |-> <<>>]
    /\ values = [p \in AllProcs |-> <<>>]
    /\ d = [p \in AllProcs |-> <<>>]
    /\ coll = [p \in AllProcs |-> <<>>]
    /\ returned = [p \in AllProcs |-> 0]
    /\ started = [p \in AllProcs |-> 0]
    /\ finished = [p \in AllProcs |-> 0]
    /\ result = [p \in AllProcs |-> Pending]
    /\ ref = [p \in AllProcs |-> "none"]
    /\ environ = NoEnviron
    /\ device = 0
    /\ ret = NoCall
    /\ program = <<>>

Group ==
    <<initialized, nprocs, prog, reduction, environ, device, ret, program>>

ScopeArgs == <<enabled, join>>

SyncArgs == <<tensor, values, d>>

Body == <<started, finished>>

Outcome == <<result, ref>>

\* The caller of process p never makes the call.
Omit(p) ==
    /\ pc[p] = "idle"
    /\ pc' = [pc EXCEPT ![p] = "omitted"]
    /\ UNCHANGED <<Group, ScopeArgs, SyncArgs, coll, returned, Body, Outcome>>

Calls == <<pc, ScopeArgs, SyncArgs, coll, returned, Body, Outcome>>

\* init(rank=p, world_size=nprocs, addr, port, device_ids): the environment
\* is set, then dist.init_process_group raises when the default group exists
\* already or the rendezvous cannot be reached; device_ids[rank] raises on a
\* list that is too short.
InitCall(p) ==
    /\ pc[p] = "life"
    /\ \E addr \in Addrs, port \in Ports, ids \in DeviceIdArgs,
          reachable \in BOOLEAN :
        /\ environ' = [addr |-> addr, port |-> port]
        /\ IF initialized \/ ~reachable
           THEN /\ ret' = Raises("init", ids)
                /\ UNCHANGED <<initialized, device>>
           ELSE /\ initialized' = TRUE
                /\ IF ids.given /\ p + 1 > Len(ids.l)
                   THEN /\ ret' = Raises("init", ids)
                        /\ UNCHANGED device
                   ELSE /\ device' = DeviceId(p, ids)
                        /\ ret' = Returns("init", DeviceId(p, ids), ids)
    /\ UNCHANGED <<nprocs, prog, reduction, program, Calls>>

\* The teardown of train.py: if num_processes > 1:
\* dist.destroy_process_group(), which raises when there is no default group.
Teardown(p) ==
    /\ pc[p] = "life"
    /\ IF nprocs > 1
       THEN IF initialized
            THEN /\ initialized' = FALSE
                 /\ ret' = Returns("teardown", 0, NoIds)
            ELSE /\ ret' = Raises("teardown", NoIds)
                 /\ UNCHANGED initialized
       ELSE /\ ret' = Returns("teardown", 0, NoIds)
            /\ UNCHANGED initialized
    /\ UNCHANGED <<nprocs, prog, reduction, program, environ, device, Calls>>

\* ---------------------------------------------------------- on_main_first
NeedsWaitNever(p, en) == FALSE

\* if enabled and is_dist() and not is_main()
NeedsWait(p, en) == en /\ is_dist /\ ~is_main(p)

NeedsReleaseAlways(p, en) == is_dist /\ is_main(p)

\* if enabled and is_dist() and is_main()
NeedsRelease(p, en) == en /\ is_dist /\ is_main(p)

NeedsJoinFollowers(p, en, jn) == en /\ jn /\ is_dist /\ ~is_main(p)

\* if enabled and join and is_dist()
NeedsJoin(p, en, jn) == en /\ jn /\ is_dist

YieldFollowersSkip(p) ==
    started' = [started EXCEPT ![p] = IF is_main(p) THEN @ + 1 ELSE @]

\* yield: control passes to the guarded block.
Yield(p) == started' = [started EXCEPT ![p] = @ + 1]

\* The second `if` of the exit code, and the return.
JoinOrExit(p) ==
    IF NeedsJoin(p, enabled[p], join[p])
    THEN /\ Issue(p, Barrier)
         /\ pc' = [pc EXCEPT ![p] = "Join"]
    ELSE /\ pc' = [pc EXCEPT ![p] = "exited"]
         /\ UNCHANGED coll

\* The entry code of on_main_first(enabled=en, join=jn): up to the first
\* barrier, or into the guarded block.
Begin(p, en, jn) ==
    /\ enabled' = [enabled EXCEPT ![p] = en]
    /\ join' = [join EXCEPT ![p] = jn]
    /\ IF NeedsWait(p, en)
       THEN /\ Issue(p, Barrier)
            /\ pc' = [pc EXCEPT ![p] = "WaitForLeader"]
            /\ UNCHANGED started
       ELSE /\ Yield(p)
            /\ pc' = [pc EXCEPT ![p] = "RunBody"]
            /\ UNCHANGED coll
    /\ UNCHANGED <<Group, SyncArgs, returned, finished, Outcome>>

\* with on_main_first(enabled=en, join=jn):
Enter(p) ==
    /\ pc[p] = "idle"
    /\ prog = "on_main_first"
    /\ \E en \in BOOLEAN, jn \in BOOLEAN : Begin(p, en, jn)

\* The next `with on_main_first(...)` of the program of the processes.
EnterScope(p) ==
    /\ pc[p] \in {"idle", "exited"}
    /\ finished[p] < Len(program)
    /\ Begin(p, program[finished[p] + 1].enabled, program[finished[p] + 1].join)

RaiseBodyFinally(p) ==
    /\ pc[p] = "RunBody"
    /\ IF NeedsRelease(p, enabled[p])
       THEN /\ Issue(p, Barrier)
            /\ pc' = [pc EXCEPT ![p] = "raised"]
       ELSE /\ pc' = [pc EXCEPT ![p] = "raised"]
            /\ UNCHANGED coll
    /\ UNCHANGED <<Group, ScopeArgs, SyncArgs, returned, Body, Outcome>>

\* The guarded block raises: the exception is thrown into the generator at
\* the yield, which has no try/finally, so none of the exit code runs and the
\* exception leaves the with statement.
RaiseBody(p) ==
    /\ pc[p] = "RunBody"
    /\ pc' = [pc EXCEPT ![p] = "raised"]
    /\ UNCHANGED <<Group, ScopeArgs, SyncArgs, coll, returned, Body, Outcome>>

\* The barrier of a waiting follower returns and its guarded block starts.
WaitReturn(p) ==
    /\ pc[p] = "WaitForLeader"
    /\ CanComplete(p)
    /\ returned' = [returned EXCEPT ![p] = @ + 1]
    /\ Yield(p)
    /\ pc' = [pc EXCEPT ![p] = "RunBody"]
    /\ UNCHANGED <<Group, ScopeArgs, SyncArgs, coll, finished, Outcome>>

\* The guarded block ends normally; the exit code runs up to its first barrier.
EndBody(p) ==
    /\ pc[p] = "RunBody"
    /\ finished' = [finished EXCEPT ![p] = @ + 1]
    /\ IF NeedsRelease(p, enabled[p])
       THEN /\ Issue(p, Barrier)
            /\ pc' = [pc EXCEPT ![p] = "Release"]
       ELSE JoinOrExit(p)
    /\ UNCHANGED <<Group, ScopeArgs, SyncArgs, returned, started, Outcome>>

\* The leader's releasing barrier returns.
ReleaseReturn(p) ==
    /\ pc[p] = "Release"
    /\ CanComplete(p)
    /\ returned' = [returned EXCEPT ![p] = @ + 1]
    /\ JoinOrExit(p)
    /\ UNCHANGED <<Group, ScopeArgs, SyncArgs, Body, Outcome>>

\* The joining barrier returns and the scope is left.
JoinReturn(p) ==
    /\ pc[p] = "Join"
    /\ CanComplete(p)
    /\ returned' = [returned EXCEPT ![p] = @ + 1]
    /\ pc' = [pc EXCEPT ![p] = "exited"]
    /\ UNCHANGED <<Group, ScopeArgs, SyncArgs, coll, Body, Outcome>>

\* ------------------------------------------------------------ sync_tensor
ReturnOrGatherAlwaysReduces(p, early, buffer) ==
    IF world_size = 1
    THEN /\ result' = [result EXCEPT ![p] =
                CASE prog = "sync_tensor" -> Reduce(<<buffer>>, reduction)
                  [] prog = "sync_values" -> ToList(Reduce(<<buffer>>, reduction))
                  [] OTHER -> RebuildDict(early.d,
                                          ToList(Reduce(<<buffer>>, reduction)))]
         /\ ref' = [ref EXCEPT ![p] = "new"]
         /\ pc' = [pc EXCEPT ![p] = "done"]
         /\ UNCHANGED coll
    ELSE /\ Issue(p, AllGather(buffer))
         /\ pc' = [pc EXCEPT ![p] = "all_gather"]
         /\ UNCHANGED Outcome

ReturnOrGatherSkipsEmpty(p, early, buffer) ==
    IF world_size = 1 \/ buffer = <<>>
    THEN /\ result' = [result EXCEPT ![p] = early]
         /\ ref' = [ref EXCEPT ![p] = "arg"]
         /\ pc' = [pc EXCEPT ![p] = "done"]
         /\ UNCHANGED coll
    ELSE /\ Issue(p, AllGather(buffer))
         /\ pc' = [pc EXCEPT ![p] = "all_gather"]
         /\ UNCHANGED Outcome

\* The call either returns at once (world size 1) or blocks in all_gather.
ReturnOrGather(p, early, buffer) ==
    IF world_size = 1
    THEN /\ result' = [result EXCEPT ![p] = early]
         /\ ref' = [ref EXCEPT ![p] = "arg"]
         /\ pc' = [pc EXCEPT ![p] = "done"]
         /\ UNCHANGED coll
    ELSE /\ Issue(p, AllGather(buffer))
         /\ pc' = [pc EXCEPT ![p] = "all_gather"]
         /\ UNCHANGED Outcome

\* What dist.all_gather leaves in `gathered`.
GatherOutcomes(p) == IF Matched(p) THEN {Gathered(p)} ELSE {Unspecified(p)}

\* The code that follows the gather, up to the return of the called function.
AfterGather(p, g) ==
    CASE prog = "sync_tensor" -> Reduce(g, reduction)
      [] prog = "sync_values" -> ToList(Reduce(g, reduction))
      [] OTHER -> RebuildDict(d[p], ToList(Reduce(g, reduction)))

\* The object a call that went through the gather returns: the tensor of the
\* reduction or its list, or `out`; none when it raises.
Returned(res) ==
    CASE res.kind \in {"ValueError", "CommError"} -> "none"
      [] res.kind = "dict" -> OutObject
      [] OTHER -> "new"

\* What the argument d holds after the call: set_recursive writes into `out`.
Written(m, res) ==
    IF res.kind = "dict" /\ OutObject = "arg" THEN res.d ELSE m

\* all_gather returns (or, on buffers of different shapes, may raise) and the
\* call runs to its end.
GatherReturn(p) ==
    /\ pc[p] = "all_gather"
    /\ CanComplete(p)
    /\ returned' = [returned EXCEPT ![p] = @ + 1]
    /\ \/ \E g \in GatherOutcomes(p) :
            result' = [result EXCEPT ![p] = AfterGather(p, g)]
       \/ /\ ~Matched(p)
          /\ result' = [result EXCEPT ![p] = CommError]
    /\ ref' = [ref EXCEPT ![p] = Returned(result'[p])]
    /\ d' = [d EXCEPT ![p] = Written(@, result'[p])]
    /\ pc' = [pc EXCEPT ![p] = "done"]
    /\ UNCHANGED <<Group, ScopeArgs, tensor, values, coll, Body>>

CallSyncTensor(p) ==
    /\ pc[p] = "idle"
    /\ prog = "sync_tensor"
    /\ \E t \in TensorInputs :
        /\ tensor' = [tensor EXCEPT ![p] = t]
        /\ ReturnOrGather(p, Tensor(t), t)
    /\ UNCHANGED <<Group, ScopeArgs, values, d, returned, Body>>

ReturnSyncTensor(p) ==
    /\ prog = "sync_tensor"
    /\ GatherReturn(p)

\* ------------------------------------------------------------ sync_values
\* torch.tensor(values, dtype=torch.float, device=device)
ValuesTensor(v) == [i \in 1..Len(v) |-> ToFloat32(v[i])]

CallSyncValues(p) ==
    /\ pc[p] = "idle"
    /\ prog = "sync_values"
    /\ \E v \in ValueInputs :
        /\ values' = [values EXCEPT ![p] = v]
        /\ ReturnOrGather(p, List(v), ValuesTensor(v))
    /\ UNCHANGED <<Group, ScopeArgs, tensor, d, returned, Body>>

ReturnSyncValues(p) ==
    /\ prog = "sync_values"
    /\ GatherReturn(p)

\* ------------------------------------------------------- sync_dict_values
CallSyncDictValues(p) ==
    /\ pc[p] = "idle"
    /\ prog = "sync_dict_values"
    /\ \E m \in DictInputs :
        /\ d' = [d EXCEPT ![p] = m]
        /\ ReturnOrGather(p, Dict(m), DictTensor(m))
    /\ UNCHANGED <<Group, ScopeArgs, tensor, values, returned, Body>>

ReturnSyncDictValues(p) ==
    /\ prog = "sync_dict_values"
    /\ GatherReturn(p)

\* ------------------------------------------------------------------- Next
Next ==
    \/ \E p \in Procs : Omit(p)
    \/ \E p \in Procs : Enter(p)
    \/ \E p \in Procs : WaitReturn(p)
    \/ \E p \in Procs : EndBody(p)
    \/ \E p \in Procs : ReleaseReturn(p)
    \/ \E p \in Procs : JoinReturn(p)
    \/ \E p \in Procs : CallSyncTensor(p)
    \/ \E p \in Procs : ReturnSyncTensor(p)
    \/ \E p \in Procs : CallSyncValues(p)
    \/ \E p \in Procs : ReturnSyncValues(p)
    \/ \E p \in Procs : CallSyncDictValues(p)
    \/ \E p \in Procs : ReturnSyncDictValues(p)

Spec == Init /\ [][Next]_vars

\* One launched process that has made no call yet, and no process group.
InitLife ==
    /\ initialized = FALSE
    /\ nprocs \in 1..MaxProcs
    /\ prog = "lifecycle"
    /\ reduction = "mean"
    /\ \E self \in 0..(nprocs - 1) :
          pc = [p \in AllProcs |-> IF p = self THEN "life" ELSE "absent"]
    /\ enabled = [p \in AllProcs |-> FALSE]
    /\ join = [p \in AllProcs |-> FALSE]
    /\ tensor = [p \in AllProcs |-> <<>>]
    /\ values = [p \in AllProcs |-> <<>>]
    /\ d = [p \in AllProcs |-> <<>>]
    /\ coll = [p \in AllProcs |-> <<>>]
    /\ returned = [p \in AllProcs |-> 0]
    /\ started = [p \in AllProcs |-> 0]
    /\ finished = [p \in AllProcs |-> 0]
    /\ result = [p \in AllProcs |-> Pending]
    /\ ref = [p \in AllProcs |-> "none"]
    /\ environ = NoEnviron
    /\ device = 0
    /\ ret = NoCall
    /\ program = <<>>

NextLife ==
    \/ \E p \in Procs : InitCall(p)
    \/ \E p \in Procs : Teardown(p)

SpecLife == InitLife /\ [][NextLife]_vars

\* A scope of the program: the arguments every process passes to it.
Scope(en, jn) == [enabled |-> en, join |-> jn]

Scopes == {Scope(en, jn) : en \in BOOLEAN, jn \in BOOLEAN}

Programs == UNION {[1..n -> Scopes] : n \in 1..MaxScopes}

\* Every launched process runs the same program of on_main_first scopes.
InitScopes ==
    /\ initialized \in BOOLEAN
    /\ nprocs \in 1..MaxProcs
    /\ prog = "on_main_first"
    /\ reduction = "mean"
    /\ pc = [p \in AllProcs |-> IF p < nprocs THEN "idle" ELSE "absent"]
    /\ enabled = [p \in AllProcs |-> FALSE]
    /\ join = [p \in AllProcs |-> FALSE]
    /\ tensor = [p \in AllProcs |-> <<>>]
    /\ values = [p \in AllProcs |-> <<>>]
    /\ d = [p \in AllProcs |-> <<>>]
    /\ coll = [p \in AllProcs |-> <<>>]
    /\ returned = [p \in AllProcs |-> 0]
    /\ started = [p \in AllProcs |-> 0]
    /\ finished = [p \in AllProcs |-> 0]
    /\ result = [p \in AllProcs |-> Pending]
    /\ ref = [p \in AllProcs |-> "none"]
    /\ environ = NoEnviron
    /\ device = 0
    /\ ret = NoCall
    /\ program \in Programs

\* What process p does when it is scheduled and its guarded blocks end.
Run(p) ==
    /\ p \in Procs
    /\ \/ EnterScope(p)
       \/ WaitReturn(p)
       \/ EndBody(p)
       \/ ReleaseReturn(p)
       \/ JoinReturn(p)

NextScopes ==
    \/ \E p \in Procs : EnterScope(p)
    \/ \E p \in Procs : WaitReturn(p)
    \/ \E p \in Procs : EndBody(p)
    \/ \E p \in Procs : ReleaseReturn(p)
    \/ \E p \in Procs : JoinReturn(p)
    \/ \E p \in Procs : RaiseBody(p)

\* Every process keeps running, a guarded block that does not raise ends,
\* and a collective that every rank has issued returns.
SpecScopes ==
    InitScopes /\ [][NextScopes]_vars /\ \A p \in AllProcs : WF_vars(Run(p))

\* ================================================================ claims
Entered(p) == pc[p] \notin {"idle", "omitted", "absent"}

Terminated(p) == pc[p] \in {"omitted", "exited", "done"}

Blocked(p) == pc[p] \in {"WaitForLeader", "Release", "Join", "all_gather"}

Followers == Procs \ {0}

AllEnabled == \A q \in Procs : Entered(q) => enabled[q]

AllJoin == \A q \in Procs : Entered(q) => join[q]

\* C1 -- Leader-first ordering: in a group of at least two processes whose
\* members all enter on_main_first with enabled=True, a process of rank
\* other than 0 has started its guarded block only if the process of rank 0
\* has finished its own.
C1_LeaderFirst ==
    (initialized /\ nprocs >= 2 /\ prog = "on_main_first" /\ AllEnabled)
        => \A p \in Followers : started[p] >= 1 => finished[0] >= 1

C1_Witness ==
    /\ initialized /\ nprocs >= 2 /\ prog = "on_main_first"
    /\ \A q \in Procs : Entered(q) /\ enabled[q]
    /\ \E p \in Followers : pc[p] = "RunBody" /\ started[p] = 1
    /\ finished[0] = 1

\* C2 -- Join guarantee: when the processes of a group enter on_main_first
\* with enabled=True and join=True, a process has left the scope only if
\* every process of the group has finished its guarded block.
C2_JoinGuarantee ==
    (initialized /\ prog = "on_main_first" /\ AllEnabled /\ AllJoin)
        => \A p \in Procs :
              pc[p] = "exited" => \A q \in Procs : finished[q] >= 1

C2_Witness ==
    /\ initialized /\ nprocs >= 2 /\ prog = "on_main_first"
    /\ \A q \in Procs : Entered(q) /\ enabled[q] /\ join[q]
    /\ \E p \in Procs : pc[p] = "exited"
    /\ \E q \in Procs : pc[q] = "Join"

\* C3 -- For every rank and every combination of enabled, join and group
\* mode, the guarded block is never started twice, is finished only after it
\* was started, and has been started and finished exactly once when the
\* process has left the scope.
C3_BodyExactlyOnce ==
    prog = "on_main_first"
        => \A p \in Procs :
              /\ started[p] <= 1
              /\ finished[p] <= started[p]
              /\ Entered(p) /\ ~Blocked(p) => started[p] = 1
              /\ pc[p] = "exited" => started[p] = 1 /\ finished[p] = 1

C3_Witness ==
    /\ initialized /\ nprocs >= 2 /\ prog = "on_main_first"
    /\ \E p \in Followers :
          pc[p] = "exited" /\ enabled[p] /\ join[p] /\ returned[p] = 2

\* C4 -- With enabled=False, or with no process group active, on_main_first
\* issues no barrier on any rank whatever join is, never blocks, and the
\* guarded block has run once when the scope is left.
C4_NoBarrierWhenDisabled ==
    prog = "on_main_first"
        => \A p \in Procs :
              (Entered(p) /\ (~enabled[p] \/ ~initialized))
                  => /\ coll[p] = <<>>
                     /\ ~Blocked(p)
                     /\ pc[p] = "exited" => started[p] = 1 /\ finished[p] = 1

C4_Witness ==
    /\ prog = "on_main_first" /\ initialized /\ nprocs >= 2
    /\ pc[0] = "exited" /\ ~enabled[0] /\ join[0]
    /\ \E p \in Followers : pc[p] = "exited" /\ ~enabled[p] /\ join[p]

\* Process p waits in a collective that a peer which has ended without
\* issuing the matching call will never issue.
Stuck(p) ==
    /\ initialized /\ nprocs >= 2
    /\ Blocked(p)
    /\ \E q \in Procs \ {p} : Terminated(q) /\ Len(coll[q]) < Current(p)

\* C5 -- Deadlock by omission: once a peer of the group has ended without
\* issuing the collective that matches the one process p waits in (the
\* all_gather of a sync function or a barrier of on_main_first), p stays in
\* that call in every later step: the call neither returns nor raises.
C5_DeadlockByOmission ==
    [][\A p \in Procs :
          Stuck(p) => /\ Stuck(p)'
                      /\ pc'[p] = pc[p]
                      /\ returned'[p] = returned[p]
                      /\ result'[p] = Pending]_vars

C5_Witness ==
    /\ \E p \in Procs : Stuck(p) /\ pc[p] = "all_gather"
                        /\ \E q \in Procs : pc[q] = "omitted"

C5_WitnessBarrier ==
    /\ \E p \in Procs : Stuck(p) /\ pc[p] = "Release"


Invalid == reduction \notin Supported

\* C6 -- In a group of at least two processes, sync_tensor called with a
\* reduction outside mean, sum and none issues no all_gather, and ends with
\* the unsupported-reduction error.
C6_ValidationBeforeGather ==
    (initialized /\ nprocs >= 2 /\ prog = "sync_tensor" /\ Invalid)
        => \A p \in Procs :
              /\ coll[p] = <<>>
              /\ pc[p] = "done" => result[p] = ValueError

\* C7 -- With world size 1, sync_tensor, sync_values and sync_dict_values
\* called with an unsupported reduction raise the unsupported-reduction
\* error instead of returning their input.
C7_ValidationBeforeShortCircuit ==
    (world_size = 1 /\ prog # "on_main_first" /\ Invalid)
        => \A p \in Procs : pc[p] = "done" => result[p] = ValueError

D_Rank0 == <<Sub("loss", <<Leaf("train", One)>>), Leaf("extra", 5 * One)>>

D_Rank1 == <<Sub("loss", <<Leaf("train", 3 * One)>>)>>

D_Mean == <<Sub("loss", <<Leaf("train", 2 * One)>>)>>

\* C8 -- Missing-key policy: in a group of two, rank 0 passing
\* {"loss":{"train":1.0},"extra":5.0} and rank 1 {"loss":{"train":3.0}} to
\* sync_dict_values with mean, a rank whose call has ended obtained exactly
\* {"loss":{"train":2.0}}.
C8_MissingKeyPolicy ==
    (/\ initialized /\ nprocs = 2 /\ prog = "sync_dict_values"
     /\ reduction = "mean"
     /\ Entered(0) /\ d[0] = D_Rank0
     /\ Entered(1) /\ d[1] = D_Rank1)
        => \A p \in Procs : pc[p] = "done" => result[p] = Dict(D_Mean)

Range(s) == {s[i] : i \in 1..Len(s)}

Absent == [k |-> "", kind |-> "absent", v |-> 0, l |-> <<>>, sub |-> <<>>]

RECURSIVE Lookup(_, _)
Lookup(m, path) ==
    IF ~HasKey(m, Head(path)) THEN Absent
    ELSE LET e == m[IndexOf(m, Head(path))]
         IN  IF Len(path) = 1 THEN e
             ELSE IF e.kind = "dict" THEN Lookup(e.sub, Tail(path))
             ELSE Absent

RECURSIVE SeqSum(_)
SeqSum(s) == IF s = <<>> THEN 0 ELSE SeqSum(SubSeq(s, 1, Len(s) - 1)) + s[Len(s)]

\* The float32 values the ranks hold under a path, in rank order.
PathValues(path) ==
    [i \in 1..nprocs |-> ToFloat32(get_recursive(d[i - 1], path))]

\* The reduction of the values of one path across the ranks.
ReducedEntry(path) ==
    LET k == path[Len(path)]
        vs == PathValues(path)
    IN  CASE reduction = "mean" -> Leaf(k, Round32(SeqSum(vs), nprocs))
          [] reduction = "sum" -> Leaf(k, SeqSum(vs))
          [] OTHER -> ListLeaf(k, vs)

SamePaths ==
    \A p, q \in Procs : Range(nested_keys(d[p])) = Range(nested_keys(d[q]))

AllDone == \A p \in Procs : pc[p] = "done"

\* C9 -- Order-independence of nested synchronisation: when the ranks pass
\* sync_dict_values mappings with the same set of non-absent leaf paths, in
\* whatever insertion orders, each path of the output holds the reduction of
\* that path's values across the ranks, and all ranks obtain the same output.
C9_OrderIndependence ==
    (/\ initialized /\ nprocs >= 2 /\ prog = "sync_dict_values"
     /\ ~Invalid /\ AllDone /\ SamePaths)
        => \A p \in Procs :
              /\ result[p].kind = "dict"
              /\ \A path \in Range(nested_keys(d[p])) :
                    Lookup(result[p].d, path) = ReducedEntry(path)
              /\ \A q \in Procs : result[q] = result[p]

\* The same statement for the reductions that collapse the ranks.
C9_MeanSumOnly ==
    reduction \in {"mean", "sum"} => C9_OrderIndependence

Stacked(p) ==
    /\ result[p].kind = "stack"
    /\ Len(result[p].st) = nprocs
    /\ \A r \in Procs : result[p].st[r + 1] = tensor[r]

\* C10 as stated -- Stacked correctness for buffers of any shapes: for at
\* least two processes calling sync_tensor with reduction none, the result
\* of a rank has leading dimension N and its slice r is the buffer of rank r.
C10_StackedAnyShape ==
    (/\ initialized /\ nprocs >= 2 /\ prog = "sync_tensor"
     /\ reduction \in {"none", "None"})
        => \A p \in Procs : pc[p] = "done" => Stacked(p)

SameShape == \A p, q \in Procs : Len(tensor[p]) = Len(tensor[q])

\* C10 -- Stacked correctness: for at least two processes calling
\* sync_tensor with reduction none on buffers of one shape, the result of a
\* rank has leading dimension N and its slice r is the buffer of rank r,
\* whatever the order in which the processes arrived.
C10_Stacked ==
    (/\ initialized /\ nprocs >= 2 /\ prog = "sync_tensor"
     /\ reduction \in {"none", "None"})
        => \A p \in Procs : (pc[p] = "done" /\ SameShape) => Stacked(p)

C10_Witness ==
    /\ initialized /\ nprocs >= 2 /\ prog = "sync_tensor"
    /\ reduction = "none"
    /\ AllDone /\ SameShape
    /\ tensor[0] # tensor[1]
    /\ \A p \in Procs : Stacked(p)


\* ------------------------------------------------ sum, mean, identity
Flat == prog \in {"sync_tensor", "sync_values"}

\* The buffer or list of numbers process p passed.
Input(p) == IF prog = "sync_tensor" THEN tensor[p] ELSE values[p]

SameLength == \A p, q \in Procs : Len(Input(p)) = Len(Input(q))

\* The contributions of the ranks at position j, in rank order.
Column(j) == [i \in 1..nprocs |-> Input(i - 1)[j]]

Column32(j) == [i \in 1..nprocs |-> ToFloat32(Input(i - 1)[j])]

Abs(x) == IF x < 0 THEN 0 - x ELSE x

\* The call of p returned a flat buffer (a tensor, or a list from sync_values)
\* of the shape of its input.
FlatResult(p) ==
    /\ result[p].kind = (IF prog = "sync_tensor" THEN "tensor" ELSE "list")
    /\ Len(result[p].t) = Len(Input(p))

Reducing(r) ==
    /\ initialized /\ nprocs >= 2 /\ Flat /\ reduction = r
    /\ AllDone /\ SameLength

\* C11 as stated -- Sum correctness with exact equality: element j of the
\* result of every rank is the sum over the ranks of v_i[j].
C11_SumExact ==
    Reducing("sum")
        => \A p \in Procs :
              /\ FlatResult(p)
              /\ \A j \in 1..Len(Input(p)) :
                    result[p].t[j] = SeqSum(Column(j))
              /\ \A q \in Procs : result[q] = result[p]

\* C11 -- Sum correctness: for at least two processes contributing buffers
\* of one shape to sync_tensor / sync_values with reduction sum, the result
\* of every rank has that shape, its element j is the sum over the ranks of
\* v_i[j] as converted to float32 (so it is the sum of the v_i[j] up to half
\* a float32 step per rank, and exactly their sum for float32 inputs), and
\* all ranks obtain the same result.
C11_Sum ==
    Reducing("sum")
        => \A p \in Procs :
              /\ FlatResult(p)
              /\ \A j \in 1..Len(Input(p)) :
                    /\ result[p].t[j] = SeqSum(Column32(j))
                    /\ 2 * Abs(result[p].t[j] - SeqSum(Column(j)))
                          <= nprocs * Grid
                    /\ prog = "sync_tensor"
                          => result[p].t[j] = SeqSum(Column(j))
              /\ \A q \in Procs : result[q] = result[p]

C11_Witness ==
    /\ Reducing("sum") /\ prog = "sync_values"
    /\ Len(values[0]) = MaxLen
    /\ values[0] # values[1]
    /\ \E j \in 1..Len(values[0]) :
          result[0].t[j] # SeqSum(Column(j))

\* C12 as stated -- Mean correctness with exact equality: element j of the
\* result of every rank is the sum over the ranks of v_i[j], divided by N.
C12_MeanExact ==
    Reducing("mean")
        => \A p \in Procs :
              /\ FlatResult(p)
              /\ \A j \in 1..Len(Input(p)) :
                    nprocs * result[p].t[j] = SeqSum(Column(j))
              /\ \A q \in Procs : result[q] = result[p]

\* C12 -- Mean correctness: for at least two processes contributing buffers
\* of one shape to sync_tensor / sync_values with reduction mean, the result
\* of every rank has that shape, its element j is the float32 nearest to the
\* sum over the ranks of the float32 values of v_i[j] divided by N (so it is
\* within one float32 step of the mean of the v_i[j]), and all ranks obtain
\* the same result.
C12_Mean ==
    Reducing("mean")
        => \A p \in Procs :
              /\ FlatResult(p)
              /\ \A j \in 1..Len(Input(p)) :
                    /\ result[p].t[j] = Round32(SeqSum(Column32(j)), nprocs)
                    /\ Abs(nprocs * result[p].t[j] - SeqSum(Column(j)))
                          <= nprocs * Grid
              /\ \A q \in Procs : result[q] = result[p]

C12_Witness ==
    /\ Reducing("mean") /\ prog = "sync_values"
    /\ Len(values[0]) = MaxLen
    /\ values[0] # values[1]
    /\ \E j \in 1..Len(values[0]) :
          nprocs * result[0].t[j] # SeqSum(Column(j))

\* C13 -- Identity law: with world size 1, sync_tensor and sync_values
\* return their input unchanged for every supported reduction and issue no
\* collective.
C13_Identity ==
    (world_size = 1 /\ Flat /\ ~Invalid)
        => \A p \in Procs :
              /\ coll[p] = <<>>
              /\ pc[p] # "all_gather"
              /\ pc[p] = "done" =>
                    result[p] = (IF prog = "sync_tensor" THEN Tensor(tensor[p])
                                 ELSE List(values[p]))

C13_Witness ==
    /\ world_size = 1 /\ prog = "sync_values" /\ reduction = "none"
    /\ pc[0] = "done"
    /\ \E j \in 1..Len(values[0]) : ToFloat32(values[0][j]) # values[0][j]
    /\ result[0] = List(values[0])


\* --------------------------------------------- paths, identity, frame
Distributed == initialized /\ nprocs >= 2

\* C18 -- In distributed mode the mapping sync_dict_values returns has as
\* its leaf paths exactly the paths of the caller's own input whose leaf is
\* not None, every one of them with a leaf.
C18_OwnPaths ==
    (Distributed /\ prog = "sync_dict_values" /\ ~Invalid)
        => \A p \in Procs :
              (pc[p] = "done" /\ result[p].kind = "dict")
                  => /\ Range(nested_keys(result[p].d))
                          = Range(nested_keys(d[p]))
                     /\ \A path \in Range(nested_keys(d[p])) :
                          Lookup(result[p].d, path).kind \in {"leaf", "list"}

\* The same statement for the reductions that collapse the ranks.
C18_MeanSumOnly ==
    reduction \in {"mean", "sum"} => C18_OwnPaths

HasNone(m) == \E i \in 1..Len(m) : m[i].kind = "none"

\* C19 -- With world size 1 sync_dict_values returns the input mapping
\* itself, unchanged: no collective, no flattening, sorting or dropping, so
\* an entry whose leaf is None is still in the result.
C19_DictIdentity ==
    (world_size = 1 /\ prog = "sync_dict_values")
        => \A p \in Procs :
              /\ coll[p] = <<>>
              /\ pc[p] = "done" => result[p] = Dict(d[p]) /\ ref[p] = "arg"

C19_Witness ==
    /\ world_size = 1 /\ prog = "sync_dict_values"
    /\ pc[0] = "done"
    /\ HasNone(d[0]) /\ HasNone(result[0].d)
    /\ Len(nested_keys(d[0])) < Len(d[0])

\* C20 -- In distributed mode sync_dict_values does not modify the mapping
\* it is passed, and the mapping it returns is a new object, not the
\* argument.
C20_InputUntouched ==
    [][\A p \in Procs :
          (Distributed /\ prog = "sync_dict_values" /\ pc[p] = "all_gather")
              => /\ d'[p] = d[p]
                 /\ result'[p].kind = "dict" => ref'[p] = "new"]_vars

C20_Witness ==
    /\ Distributed /\ prog = "sync_dict_values"
    /\ pc[0] = "done" /\ result[0].kind = "dict" /\ ref[0] = "new"
    /\ result[0].d # d[0]
    /\ \E p \in Procs : pc[p] = "done" /\ ref[p] = "new" /\ result[p].d = d[p]


\* -------------------------------------------------------------- lifecycle
\* C14 -- init raises when the context is initialised already or the
\* rendezvous cannot be reached, and an init that raised has left the group,
\* the rendezvous settings of the environment and the device binding as they
\* were.
C14_FailedInitChangesNothing ==
    [][/\ (initialized /\ ret' # ret /\ ret'.op = "init")
              => ret'.kind = "raised"
       /\ (ret'.op = "init" /\ ret'.kind = "raised")
              => UNCHANGED <<initialized, environ, device>>]_vars

\* C15 -- teardown never raises and leaves the context inactive, whether the
\* context was live, torn down already or never initialised.
C15_TeardownIdempotent ==
    ret.op = "teardown" => ret.kind = "returned" /\ ~initialized

\* C16 -- An init that returned has bound the process to device
\* device_ids[rank] when device_ids was given and to device rank otherwise,
\* and returned the id of that device.
C16_DeviceBinding ==
    \A p \in Procs :
        (pc[p] = "life" /\ ret.op = "init" /\ ret.kind = "returned")
            => /\ device = ret.val
               /\ ret.ids.given => ret.val = ret.ids.l[p + 1]
               /\ ~ret.ids.given => ret.val = p

C16_Witness ==
    /\ \E p \in Procs :
          /\ pc[p] = "life" /\ p >= 1
          /\ ret.op = "init" /\ ret.kind = "returned"
          /\ ret.ids.given /\ ret.val # p /\ device = ret.val
    /\ initialized

\* C17 -- Context invariant: in every state 0 <= rank() < world_size() and
\* world_size() >= 1; with no process group rank() = 0 and world_size() = 1;
\* is_main() is true exactly when rank() = 0.
C17_ContextInvariant ==
    \A p \in Procs :
        /\ 0 <= rank(p) /\ rank(p) < world_size
        /\ world_size >= 1
        /\ ~initialized => rank(p) = 0 /\ world_size = 1
        /\ is_main(p) <=> rank(p) = 0

C17_Witness ==
    /\ ~initialized /\ nprocs >= 2
    /\ pc[1] = "life"
    /\ ret.op = "teardown" /\ ret.kind = "returned"
    /\ rank(1) = 0 /\ world_size = 1


\* ------------------------------------------------------ programs of scopes
\* The barriers one process issues in a scope of a distributed group.
BarrierCount(sc) == IF ~sc.enabled THEN 0 ELSE IF sc.join THEN 2 ELSE 1

RECURSIVE BarriersBefore(_)
\* The barriers one process issues in the scopes before the k-th.
BarriersBefore(k) ==
    IF k <= 1 THEN 0
    ELSE BarriersBefore(k - 1) + BarrierCount(program[k - 1])

AllScopesEnabled == \A i \in 1..Len(program) : program[i].enabled

\* Each barrier a process waits in is the barrier of its own scope and phase.
PhaseAligned ==
    \A p \in Procs :
        /\ pc[p] = "WaitForLeader"
              => Len(coll[p]) = BarriersBefore(finished[p] + 1) + 1
        /\ pc[p] = "Release" => Len(coll[p]) = BarriersBefore(finished[p]) + 1
        /\ pc[p] = "Join" => Len(coll[p]) = BarriersBefore(finished[p]) + 2

\* C21 -- When every process of a group runs the same program of two or more
\* on_main_first scopes, all with enabled=True, no follower has started its
\* k-th guarded block before the leader has finished its k-th, and every
\* barrier a process waits in is the barrier of its own scope and phase.
C21_ScopesIndependent ==
    (initialized /\ nprocs >= 2 /\ Len(program) >= 2 /\ AllScopesEnabled)
        => /\ \A p \in Followers : started[p] <= finished[0]
           /\ PhaseAligned

C21_Witness ==
    /\ initialized /\ nprocs >= 2 /\ Len(program) >= 2 /\ AllScopesEnabled
    /\ program[1].join /\ ~program[2].join
    /\ \E p \in Followers : pc[p] = "RunBody" /\ started[p] = 2
    /\ finished[0] = 2


NoBlockRaises == \A p \in Procs : pc[p] # "raised"

ProgramDone ==
    \A p \in Procs : pc[p] = "exited" /\ finished[p] = Len(program)

\* C22 -- Deadlock freedom: when every process of a distributed group runs
\* the same scopes with the same enabled and join, a process that has left
\* a scope has issued 1 barrier for it when join=False, 2 when join=True and
\* 0 when disabled, the same as every other process, and if no guarded block
\* raises every process eventually leaves its last scope.
C22_DeadlockFree ==
    /\ [](initialized =>
            \A p \in Procs :
                pc[p] = "exited"
                    => Len(coll[p]) = BarriersBefore(finished[p] + 1))
    /\ (initialized /\ []NoBlockRaises) => <>ProgramDone

C22_Witness ==
    /\ initialized /\ nprocs >= 2 /\ ProgramDone
    /\ \E i \in 1..Len(program) : program[i].enabled /\ program[i].join
    /\ \A p \in Procs : Len(coll[p]) = BarriersBefore(Len(program) + 1)
    /\ Len(coll[0]) >= 2

\* C23 -- When the guarded block of the leader raises in an enabled scope of
\* a distributed group, the leader has issued no barrier for that scope, and
\* no follower has started the guarded block of that scope: a follower that
\* waits at its WaitForLeader barrier cannot be released.
C23_LeaderRaises ==
    (initialized /\ pc[0] = "raised" /\ enabled[0])
        => /\ Len(coll[0]) = BarriersBefore(started[0])
           /\ \A p \in Followers :
                 /\ started[p] < started[0]
                 /\ (pc[p] = "WaitForLeader" /\ finished[p] + 1 = started[0])
                       => ~CanComplete(p)

C23_Witness ==
    /\ initialized /\ pc[0] = "raised" /\ enabled[0]
    /\ started[0] = 2 /\ finished[0] = 1
    /\ \E p \in Followers :
          pc[p] = "WaitForLeader" /\ finished[p] = 1 /\ started[p] = 1


\* -------------------------------------------------- collectives per call
\* C24 -- In a group of two or more processes and with a supported
\* reduction, a process that has called sync_values or sync_dict_values has
\* issued exactly one collective, an all_gather, whatever the list or the
\* mapping holds (an empty mapping and a mapping of None leaves included).
C24_OneGatherPerCall ==
    (is_dist /\ world_size >= 2 /\ reduction \in Supported
             /\ prog \in {"sync_values", "sync_dict_values"})
        => \A p \in Procs :
              pc[p] \in {"all_gather", "done"}
                 => /\ Len(coll[p]) = 1
                    /\ coll[p][1].kind = "all_gather"

C24_Witness ==
    /\ is_dist /\ world_size >= 2 /\ reduction \in Supported
    /\ prog = "sync_dict_values"
    /\ pc[0] = "done" /\ d[0] = <<>> /\ Len(coll[0]) = 1
    /\ pc[1] = "done" /\ nested_keys(d[1]) = <<>> /\ d[1] # <<>>
    /\ Len(coll[1]) = 1
    /\ result[0] = Dict(<<>>)

====
